---- MODULE Spec2Model ----
(***************************************************************************)
(* Character records, the character store and the game session of the     *)
(* event-driven RPG (src/character_class.py).                              *)
(*                                                                         *)
(* SpecChar  : one Character object driven through its own methods.        *)
(* SpecStore : a Character that is damaged, healed, exported with          *)
(*             CharacterManager.export_character and loaded back.          *)
(* Spec      : the bookkeeping of one game session: characters added,      *)
(*             execute_event_template, undo_last_event, the current event  *)
(*             and the story log, inside and outside agent.run.            *)
(* SpecTurns : player turns and random events that record events, and      *)
(*             undo_last_event, with the turn of the latest event kept.    *)
(* SpecTools : the character tools the agent calls, around one recorded    *)
(*             event that can be undone.                                   *)
(* SpecSheet : cash and skills of one Character: create_npc with a cash    *)
(*             override, generate_character_with_background,               *)
(*             create_player_character, set_cash, modify_character_cash,   *)
(*             set_skills, learn_skill.                                    *)
(* SpecSave  : a session that is played, saved with save_state and loaded  *)
(*             back with load_state.                                       *)
(* SpecLoad  : SpecSave with a save file that is edited outside the        *)
(*             program and then fails to load.                             *)
(* SpecCatalog : one EventManager and its folder: save_template,           *)
(*             load_all_templates, get_template, get_random_template.      *)
(* SpecFolder : the same, with the template creator writing to the folder. *)
(* SpecNames : characters of several names exported with the default       *)
(*             filename and loaded back.                                   *)
(* SpecTropes : calls of generate_noir_tropes                              *)
(*             (src/revised_trope_generator.py).                           *)
(*                                                                         *)
(* last, rec, issued, saved and turn_rec are history variables: they       *)
(* record what the last call was and returned, what the session looked     *)
(* like before the latest recorded event, the highest event number given   *)
(* so far, what the session looked like when save_state wrote each file,   *)
(* and in which turn the latest event was recorded.                       *)
(***************************************************************************)
EXTENDS Integers, Sequences, FiniteSets, TLC

VARIABLES
    ch,             \* SpecChar: the Character object under test
    files,          \* SpecChar: rendered_character folder, filename -> stored dict
    last,           \* the last call: operation, argument, return value
    characters,     \* GameState.characters: name -> Character
    templates,      \* EventManager.templates: template id -> EventTemplate
    event_history,  \* GameState.event_history: sequence of GameEvent
    event_stats,    \* GameState.event_stats: template id -> [name, count, last_triggered]
    current_event,  \* GameState.current_event: a GameEvent or None
    story_log,      \* GameState.story_log: sequence of strings
    clock,          \* wall clock read by datetime.datetime.now()
    agent,          \* position of the GUI thread: idle, or inside agent.run(...)
    rec,            \* session state seen by the latest execute_event_template
    issued,         \* highest event_number given to an event so far in the session
    template_files, \* event_templates folder: file name -> content of the file
    saved,          \* file path -> the session as it was when save_state wrote it
    turn_rec        \* SpecTurns: the turn that recorded the latest event

vars == <<ch, files, last, characters, templates, event_history, event_stats,
          current_event, story_log, clock, agent, rec, issued, template_files,
          saved, turn_rec>>

charVars == <<ch, files>>
storeVars == <<template_files, saved, turn_rec>>
sessionVars == <<characters, templates, event_history, event_stats,
                 current_event, story_log, clock, agent, rec, issued, storeVars>>

----------------------------------------------------------------------------
(* Bounds of the model *)

\* integer arguments of the hp operations range over -MaxArg..MaxArg
MaxArg == 2
\* hit points are explored while they stay within -HpCap..HpCap
HpCap == 7
\* event_history is explored up to this length
MaxHistory == 2
\* story_log is explored up to this length
MaxLog == 4
\* the wall clock is explored up to this reading
MaxClock == 1
\* cash is explored up to this balance
MaxCash == 1
\* inventories are explored up to this length
MaxInv == 1
\* SpecTools and SpecSave explore event_history up to this length
MaxToolsHistory == 1
\* set_skills is given lists of up to this length
MaxSkills == 2

IntArgs == (0 - MaxArg)..MaxArg
HpRange == (0 - HpCap)..HpCap

\* Python's None
None == [none |-> TRUE]

Max(a, b) == IF a >= b THEN a ELSE b
Min(a, b) == IF a <= b THEN a ELSE b

----------------------------------------------------------------------------
(* Character (dataclass) *)

DefaultMaxHp == 6

\* Character(name=..., max_hp=..., cash=..., player_control=..., is_living=...,
\* archetype=..., background=...) followed by __post_init__: current_hp is an
\* init=False field without default, so it is absent after __init__ and
\* __post_init__ sets it to max_hp.
Character(name, symbol, max_hp, cash, player_control, is_living, archetype, background) ==
    [ name                 |-> name,
      symbol               |-> symbol,
      max_hp               |-> max_hp,
      current_hp           |-> max_hp,
      cash                 |-> cash,
      player_control       |-> player_control,
      is_living            |-> is_living,
      inventory            |-> << >>,
      skills               |-> << >>,
      archetype            |-> archetype,
      background           |-> background,
      physical_description |-> "",
      condition            |-> "",
      goals                |-> "",
      contextualized       |-> FALSE ]

\* Character(max_hp=m): every other field at its dataclass default
CharacterWithMaxHp(m) == Character("", "robot", m, 0, FALSE, TRUE, "", "")

set_max_hp(c, max_hp) ==
    IF c.current_hp > max_hp
    THEN [c EXCEPT !.max_hp = max_hp, !.current_hp = max_hp]
    ELSE [c EXCEPT !.max_hp = max_hp]

set_current_hp(c, current_hp) ==
    LET hp == Max(0, Min(current_hp, c.max_hp))
    IN  [c EXCEPT !.current_hp = hp,
                  !.is_living  = IF hp <= 0 THEN FALSE ELSE @]

set_is_living(c, is_living) == [c EXCEPT !.is_living = is_living]

\* a take_damage that tests "< 0" instead of "<= 0"
take_damage_strict(c, damage) ==
    LET hp == Max(0, c.current_hp - damage)
    IN  [c EXCEPT !.current_hp = hp,
                  !.is_living  = IF hp < 0 THEN FALSE ELSE @]

take_damage(c, damage) ==
    LET hp == Max(0, c.current_hp - damage)
    IN  [c EXCEPT !.current_hp = hp,
                  !.is_living  = IF hp <= 0 THEN FALSE ELSE @]

\* return value of take_damage
take_damage_ret(c, damage) == Max(0, c.current_hp - damage) <= 0

\* a heal that forgets the cap at max_hp
heal_uncapped(c, amount) ==
    IF ~c.is_living
    THEN c
    ELSE [c EXCEPT !.current_hp = c.current_hp + amount]

\* a heal that forgets the test of is_living
heal_dead(c, amount) ==
    [c EXCEPT !.current_hp = Min(c.max_hp, c.current_hp + amount)]

heal(c, amount) ==
    IF ~c.is_living
    THEN c
    ELSE [c EXCEPT !.current_hp = Min(c.max_hp, c.current_hp + amount)]

\* return value of heal
heal_ret(c, amount) ==
    IF ~c.is_living
    THEN 0
    ELSE Min(c.max_hp, c.current_hp + amount) - c.current_hp

set_cash(c, cash) == [c EXCEPT !.cash = Max(0, cash)]

add_item(c, item) == [c EXCEPT !.inventory = Append(@, item)]

\* list.remove(item): drops the first occurrence
RemoveFirst(seq, item) ==
    LET i == CHOOSE k \in 1..Len(seq) :
                 seq[k] = item /\ \A j \in 1..(k - 1) : seq[j] # item
    IN  SubSeq(seq, 1, i - 1) \o SubSeq(seq, i + 1, Len(seq))

InSeq(item, seq) == \E k \in 1..Len(seq) : seq[k] = item

remove_item(c, item) ==
    IF InSeq(item, c.inventory)
    THEN [c EXCEPT !.inventory = RemoveFirst(@, item)]
    ELSE c

\* return value of remove_item
remove_item_ret(c, item) == InSeq(item, c.inventory)

set_skills(c, skills) == [c EXCEPT !.skills = skills]

\* a learn_skill that appends without looking
learn_skill_always(c, skill) == [c EXCEPT !.skills = Append(@, skill)]

learn_skill(c, skill) ==
    IF ~InSeq(skill, c.skills)
    THEN [c EXCEPT !.skills = Append(@, skill)]
    ELSE c

set_condition(c, condition) == [c EXCEPT !.condition = condition]

clear_condition(c) == [c EXCEPT !.condition = ""]

----------------------------------------------------------------------------
(* CharacterManager: export_character / load_character *)

\* str.lower() and str.replace(' ', '_') on the alphabet of the model
Alphabet == {"A", "a", "B", "b", " ", "_"}
LowerChar(x) == CASE x = "A" -> "a" [] x = "B" -> "b" [] OTHER -> x
ReplaceSpace(x) == IF x = " " THEN "_" ELSE x

\* a default filename that drops the spaces instead of replacing them
DefaultFilename_strip(name) ==
    LET kept(x) == x # " "
        bare    == SelectSeq(name, kept)
    IN  [i \in 1..Len(bare) |-> LowerChar(bare[i])] \o <<".json">>

\* a name is a sequence of characters; the default filename is
\* name.replace(' ', '_').lower() + ".json"
DefaultFilename(name) ==
    [i \in 1..Len(name) |-> LowerChar(ReplaceSpace(name[i]))] \o <<".json">>

\* the dict export_character writes (all fifteen fields), as json.load
\* returns it: ints, booleans, strings and lists of strings are read back as
\* written
CharDict(c) ==
    [ name                 |-> c.name,
      symbol               |-> c.symbol,
      max_hp               |-> c.max_hp,
      current_hp           |-> c.current_hp,
      cash                 |-> c.cash,
      player_control       |-> c.player_control,
      is_living            |-> c.is_living,
      inventory            |-> c.inventory,
      skills               |-> c.skills,
      archetype            |-> c.archetype,
      background           |-> c.background,
      physical_description |-> c.physical_description,
      condition            |-> c.condition,
      goals                |-> c.goals,
      contextualized       |-> c.contextualized ]

\* a load that leaves current_hp where __post_init__ put it
LoadFromDict_fresh(d) ==
    [ Character(d.name, d.symbol, d.max_hp, d.cash, d.player_control,
                d.is_living, d.archetype, d.background)
      EXCEPT !.inventory            = d.inventory,
             !.skills               = d.skills,
             !.physical_description = d.physical_description,
             !.condition            = d.condition,
             !.goals                = d.goals,
             !.contextualized       = d.contextualized ]

\* load_character / load_state on a stored dict: pop current_hp,
\* Character(**char_dict) (whose __post_init__ sets current_hp = max_hp), then
\* restore current_hp when the dict had one
LoadFromDict(d) ==
    LET c0 == [ Character(d.name, d.symbol, d.max_hp, d.cash, d.player_control,
                          d.is_living, d.archetype, d.background)
                EXCEPT !.inventory            = d.inventory,
                       !.skills               = d.skills,
                       !.physical_description = d.physical_description,
                       !.condition            = d.condition,
                       !.goals                = d.goals,
                       !.contextualized       = d.contextualized ]
    IN  IF "current_hp" \in DOMAIN d
        THEN [c0 EXCEPT !.current_hp = d.current_hp]
        ELSE c0

----------------------------------------------------------------------------
(* SpecChar: one Character object and the character store *)

\* name of the character under test ("Ab")
TestName == <<"A", "b">>

InitChar ==
    /\ ch = [CharacterWithMaxHp(DefaultMaxHp) EXCEPT !.name = TestName]
    /\ files = << >>

Call(op, arg, ret) == [op |-> op, arg |-> arg, ret |-> ret]

HpInRange(c) == c.max_hp \in HpRange /\ c.current_hp \in HpRange

\* Character(name=..., max_hp=m)
CConstruct(m) ==
    /\ ch' = [CharacterWithMaxHp(m) EXCEPT !.name = TestName]
    /\ last' = Call("Character", m, None)
    /\ UNCHANGED <<files, sessionVars>>

CSetMaxHp(m) ==
    /\ ch' = set_max_hp(ch, m)
    /\ last' = Call("set_max_hp", m, None)
    /\ UNCHANGED <<files, sessionVars>>

CSetCurrentHp(h) ==
    /\ ch' = set_current_hp(ch, h)
    /\ last' = Call("set_current_hp", h, None)
    /\ UNCHANGED <<files, sessionVars>>

CSetIsLiving(b) ==
    /\ ch' = set_is_living(ch, b)
    /\ last' = Call("set_is_living", b, None)
    /\ UNCHANGED <<files, sessionVars>>

CTakeDamage(d) ==
    /\ HpInRange(take_damage(ch, d))
    /\ ch' = take_damage(ch, d)
    /\ last' = Call("take_damage", d, take_damage_ret(ch, d))
    /\ UNCHANGED <<files, sessionVars>>

CHeal(a) ==
    /\ HpInRange(heal(ch, a))
    /\ ch' = heal(ch, a)
    /\ last' = Call("heal", a, heal_ret(ch, a))
    /\ UNCHANGED <<files, sessionVars>>

\* export_character(character) with the default filename; returns the path
CExport ==
    LET fn == DefaultFilename(ch.name)
    IN  /\ files' = (fn :> CharDict(ch)) @@ files
        /\ last' = Call("export_character", fn, fn)
        /\ UNCHANGED <<ch, sessionVars>>

\* load_character(filename) of an existing file; the loaded object replaces
\* the one under test
CLoad(fn) ==
    /\ fn \in DOMAIN files
    /\ ch' = LoadFromDict(files[fn])
    /\ last' = Call("load_character", fn, None)
    /\ UNCHANGED <<files, sessionVars>>

\* load_character(filename) of a missing file raises FileNotFoundError
CLoadMissing(fn) ==
    /\ fn \notin DOMAIN files
    /\ last' = Call("load_character", fn, "FileNotFoundError")
    /\ UNCHANGED <<ch, files, sessionVars>>

HpArgs == IntArgs \cup {DefaultMaxHp}

NextChar ==
    \/ \E m \in HpArgs : CConstruct(m)
    \/ \E m \in HpArgs : CSetMaxHp(m)
    \/ \E h \in HpArgs : CSetCurrentHp(h)
    \/ \E b \in BOOLEAN : CSetIsLiving(b)
    \/ \E d \in HpArgs : CTakeDamage(d)
    \/ \E a \in HpArgs : CHeal(a)

\* SpecStore: a character that is damaged, healed, exported and loaded back
NextStore ==
    \/ \E d \in 0..MaxArg : CTakeDamage(d)
    \/ \E a \in 0..MaxArg : CHeal(a)
    \/ \E b \in BOOLEAN : CSetIsLiving(b)
    \/ CExport
    \/ CLoad(DefaultFilename(TestName))
    \/ CLoadMissing(DefaultFilename(TestName))

----------------------------------------------------------------------------
(* CharacterManager: generation *)

\* palette of display symbols (the first two of character_symbols)
CharacterSymbols == {"robot", "disk"}
\* the outcome of random.choice(character_symbols) the sessions are explored with
SessionSymbols == { "robot" }

\* what CharacterGenerator.generate_character() hands back: a suggested
\* archetype and the text of generate_description()
BaseCharacters == { [archetype |-> "Netrunner", description |-> "generated background"] }

\* generate_character_with_background(name, **kwargs): symbol is the outcome
\* of random.choice, base the outcome of the generator; kwargs is the record
\* of keyword arguments
generate_character_with_background(name, kwargs, symbol, base) ==
    LET archetype == IF "archetype" \in DOMAIN kwargs THEN kwargs.archetype
                     ELSE base.archetype
        given     == Character(name, symbol, DefaultMaxHp, 0, FALSE, TRUE,
                               archetype, base.description)
        merged    == [f \in DOMAIN given |->
                         IF f \in (DOMAIN kwargs) \ {"archetype"}
                         THEN kwargs[f] ELSE given[f]]
    IN  [merged EXCEPT !.current_hp = merged.max_hp]

\* create_npc(name, archetype="", **kwargs)
create_npc(name, archetype, kwargs, symbol, base) ==
    generate_character_with_background(
        name, [player_control |-> FALSE, archetype |-> archetype] @@ kwargs,
        symbol, base)

\* create_player_character(name, archetype="", **kwargs)
create_player_character(name, archetype, kwargs, symbol, base) ==
    generate_character_with_background(
        name, [player_control |-> TRUE, archetype |-> archetype] @@ kwargs,
        symbol, base)

----------------------------------------------------------------------------
(* SpecSheet: cash and skills of one Character *)

SheetSkills == {"Hacking", "Stealth"}

\* the lists set_skills is called with
SkillLists == UNION { [1..n -> SheetSkills] : n \in 0..MaxSkills }

\* list.count(x)
Count(seq, x) == Cardinality({k \in 1..Len(seq) : seq[k] = x})

NoDuplicates(seq) ==
    \A i \in 1..Len(seq), j \in 1..Len(seq) : i # j => seq[i] # seq[j]

\* character_manager.create_npc(name=..., cash=cash), as load_test_characters
\* calls it
CCreateNpc(cash, symbol, base) ==
    /\ ch' = create_npc(TestName, "", [cash |-> cash], symbol, base)
    /\ last' = Call("create_npc", cash, None)
    /\ UNCHANGED <<files, sessionVars>>

\* an archetype a caller supplies
CallerArchetypes == { "Fixer" }

\* character_manager.generate_character_with_background(name=..., **kwargs)
CGenerate(kwargs, symbol, base) ==
    /\ ch' = generate_character_with_background(TestName, kwargs, symbol, base)
    /\ last' = Call("generate_character_with_background", kwargs, None)
    /\ UNCHANGED <<files, sessionVars>>

\* character_manager.create_player_character(name, archetype): archetype is ""
\* when the caller leaves it out
CCreatePlayerCharacter(archetype, symbol, base) ==
    /\ ch' = create_player_character(TestName, archetype, << >>, symbol, base)
    /\ last' = Call("create_player_character", archetype, None)
    /\ UNCHANGED <<files, sessionVars>>

CSetCash(cash) ==
    /\ ch' = set_cash(ch, cash)
    /\ last' = Call("set_cash", cash, None)
    /\ UNCHANGED <<files, sessionVars>>

\* the body of the tool modify_character_cash on the character under test;
\* the return value is the new balance the message reports
CModifyCash(change) ==
    LET old_cash == ch.cash
        new_cash == Max(0, old_cash + change)
    IN  /\ new_cash <= MaxArg
        /\ ch' = set_cash(ch, new_cash)
        /\ last' = Call("modify_character_cash", change, new_cash)
        /\ UNCHANGED <<files, sessionVars>>

CSetSkills(skills) ==
    /\ ch' = set_skills(ch, skills)
    /\ last' = Call("set_skills", skills, None)
    /\ UNCHANGED <<files, sessionVars>>

\* learn_skill(skill); the second component of arg records whether the skill
\* was in the list before the call
CLearnSkill(skill) ==
    /\ Len(ch.skills) <= MaxSkills
    /\ ch' = learn_skill(ch, skill)
    /\ last' = Call("learn_skill", <<skill, InSeq(skill, ch.skills)>>, None)
    /\ UNCHANGED <<files, sessionVars>>

NextSheet ==
    \/ \E cash \in IntArgs, symbol \in SessionSymbols, base \in BaseCharacters :
           CCreateNpc(cash, symbol, base)
    \/ \E cash \in IntArgs : CSetCash(cash)
    \/ \E change \in IntArgs : CModifyCash(change)
    \/ \E skills \in SkillLists : CSetSkills(skills)
    \/ \E skill \in SheetSkills : CLearnSkill(skill)
    \/ \E symbol \in CharacterSymbols, base \in BaseCharacters :
           CGenerate(<< >>, symbol, base)
    \/ \E archetype \in CallerArchetypes, symbol \in CharacterSymbols,
          base \in BaseCharacters :
           CGenerate([archetype |-> archetype], symbol, base)
    \/ \E archetype \in CallerArchetypes \cup {""}, symbol \in CharacterSymbols,
          base \in BaseCharacters :
           CCreatePlayerCharacter(archetype, symbol, base)

----------------------------------------------------------------------------
(* CharacterManager: export under several names *)

\* the names of the characters that are created and exported
ExportNames ==
    { TestName, <<"a", "b">>, <<"a", " ", "b">>, <<"a", "_", "b">> }

\* the damage the exported characters take
ExportDamages == { 2 }

\* character_manager.create_npc(name=name): a new character under test
CCreateNamed(name, symbol, base) ==
    /\ ch' = create_npc(name, "", << >>, symbol, base)
    /\ last' = Call("create_npc", name, None)
    /\ UNCHANGED <<files, sessionVars>>

\* SpecNames: characters of several names, each damaged, exported with the
\* default filename and loaded back
NextNames ==
    \/ \E name \in ExportNames, symbol \in SessionSymbols, base \in BaseCharacters :
           CCreateNamed(name, symbol, base)
    \/ \E d \in ExportDamages : CTakeDamage(d)
    \/ CExport
    \/ \E name \in ExportNames : CLoad(DefaultFilename(name))

----------------------------------------------------------------------------
(* Event templates and game events *)

EventTemplate(id, name, description, difficulty, tags) ==
    [ id                |-> id,
      name              |-> name,
      description       |-> description,
      triggers          |-> <<"t">>,
      possible_outcomes |-> <<"o">>,
      required_tools    |-> <<"modify_character_hp">>,
      context_hints     |-> <<"h">>,
      difficulty        |-> difficulty,
      tags              |-> tags ]

\* two of the templates create_default_templates writes
TreasureFind ==
    EventTemplate("treasure_find", "Treasure Discovery", "hidden cache", "easy",
                  <<"exploration", "reward", "discovery">>)
CombatEncounter ==
    EventTemplate("combat_encounter", "Combat Encounter", "hostile enemies", "hard",
                  <<"combat", "danger", "challenge">>)

\* a template id no file of the catalog carries
UnknownTemplateId == "no_such_template"

\* asdict(template) as json.dump writes it and json.load returns it
TemplateDict(t) ==
    [ id                |-> t.id,
      name              |-> t.name,
      description       |-> t.description,
      triggers          |-> t.triggers,
      possible_outcomes |-> t.possible_outcomes,
      required_tools    |-> t.required_tools,
      context_hints     |-> t.context_hints,
      difficulty        |-> t.difficulty,
      tags              |-> t.tags ]

\* EventTemplate(**data)
TemplateFromDict(d) ==
    [ EventTemplate(d.id, d.name, d.description, d.difficulty, d.tags)
      EXCEPT !.triggers          = d.triggers,
             !.possible_outcomes = d.possible_outcomes,
             !.required_tools    = d.required_tools,
             !.context_hints     = d.context_hints ]

\* content of a file on which json.load or EventTemplate(**data) raises
Malformed == [malformed |-> TRUE]

\* whether the try block of load_all_templates gets through a file
Parses(content) == "id" \in DOMAIN content

\* f"{template.id}.json"
TemplateFilename(id) == <<id, ".json">>

\* a file of the folder that no template is saved under
BrokenFile == <<"notes", ".json">>

\* a lookup that falls back to some template of the catalog
get_template_fallback(catalog, template_id) ==
    IF template_id \in DOMAIN catalog THEN catalog[template_id]
    ELSE catalog[CHOOSE k \in DOMAIN catalog : TRUE]

\* EventManager.get_template: dict.get, None when absent
get_template(catalog, template_id) ==
    IF template_id \in DOMAIN catalog THEN catalog[template_id] ELSE None

GameEvent(template_id, template_name, description, timestamp, player_action, event_number) ==
    [ template_id                |-> template_id,
      template_name              |-> template_name,
      contextualized_description |-> description,
      outcome                    |-> "",
      character_changes          |-> << >>,
      timestamp                  |-> timestamp,
      player_action              |-> player_action,
      event_number               |-> event_number ]

\* an event_number that forgets the "+ 1"
NextEventNumber_len(history) == Len(history)

\* the event_number execute_event_template assigns
NextEventNumber(history) == Len(history) + 1

\* statistics whose new entry starts at count 1 before the increment
StatsAfterExecute_one(stats, template_id, template, now) ==
    LET base == IF template_id \notin DOMAIN stats
                THEN (template_id :> [name |-> template.name, count |-> 1,
                                      last_triggered |-> None]) @@ stats
                ELSE stats
    IN  [base EXCEPT ![template_id].count = @ + 1,
                     ![template_id].last_triggered = now]

\* event_stats after execute_event_template: the entry is created with count 0
\* when absent, then count += 1 and last_triggered = now
StatsAfterExecute(stats, template_id, template, now) ==
    LET base == IF template_id \notin DOMAIN stats
                THEN (template_id :> [name |-> template.name, count |-> 0,
                                      last_triggered |-> None]) @@ stats
                ELSE stats
    IN  [base EXCEPT ![template_id].count = @ + 1,
                     ![template_id].last_triggered = now]

\* an undo that deletes the template's entry whatever its count
StatsAfterUndo_drop(stats, template_id) ==
    [k \in (DOMAIN stats) \ {template_id} |-> stats[k]]

\* an undo that keeps an entry whose count reached zero
StatsAfterUndo_keep(stats, template_id) ==
    IF template_id \in DOMAIN stats
    THEN [stats EXCEPT ![template_id].count = @ - 1]
    ELSE stats

\* event_stats after undo_last_event popped an event of template_id
StatsAfterUndo(stats, template_id) ==
    IF template_id \in DOMAIN stats
    THEN LET dec == [stats EXCEPT ![template_id].count = @ - 1]
         IN  IF dec[template_id].count <= 0
             THEN [k \in (DOMAIN stats) \ {template_id} |-> dec[k]]
             ELSE dec
    ELSE stats

\* an undo that pops the oldest event (pop(0))
HistoryAfterUndo_first(history) == SubSeq(history, 2, Len(history))

\* event_history after undo_last_event: list.pop() drops the last element
HistoryAfterUndo(history) == SubSeq(history, 1, Len(history) - 1)

\* an undo that leaves current_event as it is
CurrentAfterUndo_stay(current, last_event) == current

\* current_event after undo_last_event popped last_event
CurrentAfterUndo(current, last_event) ==
    IF current # None /\ current.event_number = last_event.event_number
    THEN None
    ELSE current

\* story_log after undo_last_event: the last two entries are popped when
\* there are at least two
LogAfterUndo(log) ==
    IF Len(log) >= 2 THEN SubSeq(log, 1, Len(log) - 2) ELSE log

----------------------------------------------------------------------------
(* Spec: the game session *)

\* inputs of the session
Names         == { <<"A">> }
HpChanges     == { 0 - 4, 3 }
CashChanges   == { 0 - 1, 1 }
Items         == { "Sword" }
Skills        == { "Hacking" }
Conditions    == { "prone" }
PlayerInputs  == { "look around" }
\* SpecSave: the characters of the session and the changes of their hp
SaveNames     == { <<"A">>, <<"B">> }
SaveHpChanges == { 0 - 4 }
TemplateIds   == { "treasure_find", "combat_encounter", UnknownTemplateId }

Idle == [ctx |-> "idle", input |-> ""]
NoTurn == [event_number |-> 0, turn |-> "", story_log |-> << >>]
NoRec == [fresh |-> FALSE, template_id |-> "", event_history |-> << >>,
          event_stats |-> << >>]

\* GameState.__init__ with a templates folder that holds two templates and
\* one file that does not parse, RPGGameEngine.__init__ done
InitSession ==
    /\ characters = << >>
    /\ templates = ("treasure_find" :> TreasureFind) @@ ("combat_encounter" :> CombatEncounter)
    /\ event_history = << >>
    /\ event_stats = << >>
    /\ current_event = None
    /\ story_log = << >>
    /\ clock = 0
    /\ agent = Idle
    /\ rec = NoRec
    /\ issued = 0
    /\ template_files = (TemplateFilename("treasure_find") :> TemplateDict(TreasureFind))
                        @@ (TemplateFilename("combat_encounter") :> TemplateDict(CombatEncounter))
                        @@ (BrokenFile :> Malformed)
    /\ saved = << >>
    /\ turn_rec = NoTurn

Init ==
    /\ InitChar
    /\ InitSession
    /\ last = Call("init", None, None)

AgentRunning == agent.ctx # "idle"

\* RPGGameGUI.add_character: create_npc(name=name), GameState.add_character
gui_add_character(name, symbol, base) ==
    /\ ~AgentRunning
    /\ characters' = (name :> create_npc(name, "", << >>, symbol, base)) @@ characters
    /\ last' = Call("add_character", name, None)
    /\ UNCHANGED <<charVars, storeVars, templates, event_history, event_stats, current_event,
                   story_log, clock, agent, rec, issued>>

\* what a character tool leaves alone
ToolFrame ==
    UNCHANGED <<charVars, storeVars, templates, event_history, event_stats, current_event,
                story_log, clock, agent, rec, issued>>

\* the "Character '{name}' not found" return of a character tool
NotFound(op, name, arg) ==
    /\ last' = Call(op, <<name, arg>>, <<"not found">>)
    /\ UNCHANGED characters

\* a modify_character_hp that raises the hit points itself instead of calling
\* heal
modify_character_hp_revive(name, change) ==
    /\ AgentRunning
    /\ IF name \in DOMAIN characters
       THEN LET character == characters[name]
            IN  IF change > 0
                THEN /\ characters' = [characters EXCEPT ![name] =
                            set_current_hp(character, character.current_hp + change)]
                     /\ last' = Call("modify_character_hp", <<name, change>>,
                                     <<"healed", heal_ret(character, change)>>)
                ELSE /\ characters' = [characters EXCEPT
                                          ![name] = take_damage(character, 0 - change)]
                     /\ last' = Call("modify_character_hp", <<name, change>>,
                                     <<"damage", take_damage_ret(character, 0 - change)>>)
       ELSE NotFound("modify_character_hp", name, change)
    /\ ToolFrame

modify_character_hp(name, change) ==
    /\ AgentRunning
    /\ IF name \in DOMAIN characters
       THEN LET character == characters[name]
            IN  IF change > 0
                THEN /\ characters' = [characters EXCEPT ![name] = heal(character, change)]
                     /\ last' = Call("modify_character_hp", <<name, change>>,
                                     <<"healed", heal_ret(character, change)>>)
                ELSE /\ characters' = [characters EXCEPT
                                          ![name] = take_damage(character, 0 - change)]
                     /\ last' = Call("modify_character_hp", <<name, change>>,
                                     <<"damage", take_damage_ret(character, 0 - change)>>)
       ELSE NotFound("modify_character_hp", name, change)
    /\ ToolFrame

modify_character_cash(name, change) ==
    /\ AgentRunning
    /\ IF name \in DOMAIN characters
       THEN LET character == characters[name]
                new_cash  == Max(0, character.cash + change)
            IN  /\ new_cash <= MaxCash
                /\ characters' = [characters EXCEPT ![name] = set_cash(character, new_cash)]
                /\ last' = Call("modify_character_cash", <<name, change>>,
                                <<IF change > 0 THEN "gained" ELSE "lost", new_cash>>)
       ELSE NotFound("modify_character_cash", name, change)
    /\ ToolFrame

add_item_to_inventory(name, item) ==
    /\ AgentRunning
    /\ IF name \in DOMAIN characters
       THEN LET character == characters[name]
            IN  /\ Len(character.inventory) < MaxInv
                /\ characters' = [characters EXCEPT ![name] = add_item(character, item)]
                /\ last' = Call("add_item_to_inventory", <<name, item>>, <<"added">>)
       ELSE NotFound("add_item_to_inventory", name, item)
    /\ ToolFrame

remove_item_from_inventory(name, item) ==
    /\ AgentRunning
    /\ IF name \in DOMAIN characters
       THEN LET character == characters[name]
            IN  /\ characters' = [characters EXCEPT ![name] = remove_item(character, item)]
                /\ last' = Call("remove_item_from_inventory", <<name, item>>,
                                IF remove_item_ret(character, item)
                                THEN <<"removed">> ELSE <<"does not have">>)
       ELSE NotFound("remove_item_from_inventory", name, item)
    /\ ToolFrame

set_character_condition(name, condition) ==
    /\ AgentRunning
    /\ IF name \in DOMAIN characters
       THEN /\ characters' = [characters EXCEPT
                                 ![name] = set_condition(characters[name], condition)]
            /\ last' = Call("set_character_condition", <<name, condition>>, <<"is now">>)
       ELSE NotFound("set_character_condition", name, condition)
    /\ ToolFrame

clear_character_condition(name) ==
    /\ AgentRunning
    /\ IF name \in DOMAIN characters
       THEN /\ characters' = [characters EXCEPT ![name] = clear_condition(characters[name])]
            /\ last' = Call("clear_character_condition", <<name, None>>, <<"cleared">>)
       ELSE NotFound("clear_character_condition", name, None)
    /\ ToolFrame

learn_character_skill(name, skill) ==
    /\ AgentRunning
    /\ IF name \in DOMAIN characters
       THEN /\ characters' = [characters EXCEPT
                                 ![name] = learn_skill(characters[name], skill)]
            /\ last' = Call("learn_character_skill", <<name, skill>>, <<"learned">>)
       ELSE NotFound("learn_character_skill", name, skill)
    /\ ToolFrame

\* execute_event_template(template_id, player_action); t1 and t2 are the two
\* readings of datetime.datetime.now()
execute_event_template(template_id, player_action, t1, t2) ==
    /\ AgentRunning
    /\ LET template == get_template(templates, template_id)
       IN  IF template = None
           THEN /\ last' = Call("execute_event_template", <<template_id, issued>>,
                                <<"not found">>)
                /\ UNCHANGED <<event_history, event_stats, current_event, clock,
                               rec, issued>>
           ELSE LET event_number == NextEventNumber(event_history)
                    game_event   == GameEvent(template_id, template.name,
                                              template.description, t1,
                                              player_action, event_number)
                IN  /\ Len(event_history) < MaxHistory
                    /\ event_history' = Append(event_history, game_event)
                    /\ current_event' = game_event
                    /\ event_stats' = StatsAfterExecute(event_stats, template_id, template, t2)
                    /\ clock' = t2
                    /\ rec' = [fresh |-> TRUE, template_id |-> template_id,
                               event_history |-> event_history,
                               event_stats |-> event_stats]
                    /\ issued' = Max(issued, event_number)
                    /\ last' = Call("execute_event_template", <<template_id, issued>>,
                                    <<"EVENT", event_number, template.name>>)
    /\ UNCHANGED <<charVars, storeVars, characters, templates, story_log, agent>>

\* process_player_action up to the call of agent.run(prompt)
process_player_action(player_input) ==
    /\ ~AgentRunning
    /\ Len(story_log) + 2 <= MaxLog
    /\ agent' = [ctx |-> "process_player_action", input |-> player_input]
    /\ last' = Call("agent.run", player_input, None)
    /\ UNCHANGED <<charVars, storeVars, characters, templates, event_history, event_stats,
                   current_event, story_log, clock, rec, issued>>

\* RPGGameGUI.trigger_random_event up to the call of agent.run(prompt)
trigger_random_event ==
    /\ ~AgentRunning
    /\ DOMAIN templates # {}
    /\ agent' = [ctx |-> "trigger_random_event", input |-> ""]
    /\ last' = Call("agent.run", None, None)
    /\ UNCHANGED <<charVars, storeVars, characters, templates, event_history, event_stats,
                   current_event, story_log, clock, rec, issued>>

\* force_selected_event (the dialog of force_specific_event) up to agent.run
force_selected_event ==
    /\ ~AgentRunning
    /\ DOMAIN templates # {}
    /\ agent' = [ctx |-> "force_selected_event", input |-> ""]
    /\ last' = Call("agent.run", None, None)
    /\ UNCHANGED <<charVars, storeVars, characters, templates, event_history, event_stats,
                   current_event, story_log, clock, rec, issued>>

\* agent.run returns a response: process_player_action appends the player
\* and GM entries; the two GUI handlers only display the response
agent_run_returns ==
    /\ AgentRunning
    /\ story_log' = IF agent.ctx = "process_player_action"
                    THEN story_log \o << <<"Player", agent.input>>, <<"GM", "response">> >>
                    ELSE story_log
    /\ agent' = Idle
    /\ last' = Call(agent.ctx, agent.input, <<"response">>)
    /\ UNCHANGED <<charVars, storeVars, characters, templates, event_history, event_stats,
                   current_event, clock, rec, issued>>

\* a process_player_action that logs the player's entry before calling
\* agent.run
agent_run_raises_logged ==
    /\ AgentRunning
    /\ agent' = Idle
    /\ story_log' = IF agent.ctx = "process_player_action"
                    THEN Append(story_log, <<"Player", agent.input>>)
                    ELSE story_log
    /\ last' = Call(agent.ctx, agent.input, <<"Error processing action">>)
    /\ UNCHANGED <<charVars, storeVars, characters, templates, event_history, event_stats,
                   current_event, clock, rec, issued>>

\* agent_run_returns with a record of the turn: when the turn recorded an
\* event (the last tool call was an execute_event_template that found its
\* template), turn_rec keeps the number of that event, the handler the turn
\* ran in and the story log the turn started from
agent_run_returns_turn ==
    /\ AgentRunning
    /\ story_log' = IF agent.ctx = "process_player_action"
                    THEN story_log \o << <<"Player", agent.input>>, <<"GM", "response">> >>
                    ELSE story_log
    /\ agent' = Idle
    /\ last' = Call(agent.ctx, agent.input, <<"response">>)
    /\ turn_rec' = IF last.op = "execute_event_template" /\ last.ret[1] = "EVENT"
                   THEN [event_number |-> current_event.event_number,
                         turn |-> agent.ctx, story_log |-> story_log]
                   ELSE turn_rec
    /\ UNCHANGED <<charVars, template_files, saved, characters, templates,
                   event_history, event_stats, current_event, clock, rec, issued>>

\* agent.run raises: each caller catches it and reports an error message
agent_run_raises ==
    /\ AgentRunning
    /\ agent' = Idle
    /\ last' = Call(agent.ctx, agent.input, <<"Error processing action">>)
    /\ UNCHANGED <<charVars, storeVars, characters, templates, event_history, event_stats,
                   current_event, story_log, clock, rec, issued>>

\* an undo whose story-log cleanup sits outside the "if event_history" test
undo_last_event_log ==
    /\ ~AgentRunning
    /\ IF Len(event_history) > 0
       THEN LET last_event == event_history[Len(event_history)]
            IN  /\ event_history' = HistoryAfterUndo(event_history)
                /\ event_stats' = StatsAfterUndo(event_stats, last_event.template_id)
                /\ current_event' = CurrentAfterUndo(current_event, last_event)
                /\ last' = Call("undo_last_event", rec.fresh,
                                <<"Undid event", last_event.event_number,
                                  last_event.template_name>>)
       ELSE /\ last' = Call("undo_last_event", rec.fresh, <<"No events to undo">>)
            /\ UNCHANGED <<event_history, event_stats, current_event>>
    /\ story_log' = LogAfterUndo(story_log)
    /\ rec' = [rec EXCEPT !.fresh = FALSE]
    /\ UNCHANGED <<charVars, storeVars, characters, templates, clock, agent, issued>>

\* an undo that also clears every character's condition
undo_last_event_conditions ==
    /\ ~AgentRunning
    /\ IF Len(event_history) > 0
       THEN LET last_event == event_history[Len(event_history)]
            IN  /\ event_history' = HistoryAfterUndo(event_history)
                /\ event_stats' = StatsAfterUndo(event_stats, last_event.template_id)
                /\ current_event' = CurrentAfterUndo(current_event, last_event)
                /\ story_log' = LogAfterUndo(story_log)
                /\ characters' = [n \in DOMAIN characters |->
                                     clear_condition(characters[n])]
                /\ last' = Call("undo_last_event", rec.fresh,
                                <<"Undid event", last_event.event_number,
                                  last_event.template_name>>)
       ELSE /\ last' = Call("undo_last_event", rec.fresh, <<"No events to undo">>)
            /\ UNCHANGED <<event_history, event_stats, current_event, story_log,
                           characters>>
    /\ rec' = [rec EXCEPT !.fresh = FALSE]
    /\ UNCHANGED <<charVars, storeVars, templates, clock, agent, issued>>

\* RPGGameEngine.undo_last_event
undo_last_event ==
    /\ ~AgentRunning
    /\ IF Len(event_history) > 0
       THEN LET last_event == event_history[Len(event_history)]
            IN  /\ event_history' = HistoryAfterUndo(event_history)
                /\ event_stats' = StatsAfterUndo(event_stats, last_event.template_id)
                /\ current_event' = CurrentAfterUndo(current_event, last_event)
                /\ story_log' = LogAfterUndo(story_log)
                /\ last' = Call("undo_last_event", rec.fresh,
                                <<"Undid event", last_event.event_number,
                                  last_event.template_name>>)
       ELSE /\ last' = Call("undo_last_event", rec.fresh, <<"No events to undo">>)
            /\ UNCHANGED <<event_history, event_stats, current_event, story_log>>
    /\ rec' = [rec EXCEPT !.fresh = FALSE]
    /\ UNCHANGED <<charVars, storeVars, characters, templates, clock, agent, issued>>

\* RPGGameGUI.clear_current_event
clear_current_event ==
    /\ ~AgentRunning
    /\ current_event' = None
    /\ last' = Call("clear_current_event", None, None)
    /\ UNCHANGED <<charVars, storeVars, characters, templates, event_history, event_stats,
                   story_log, clock, agent, rec, issued>>

\* RPGGameGUI.clear_story
clear_story ==
    /\ ~AgentRunning
    /\ story_log' = << >>
    /\ last' = Call("clear_story", None, None)
    /\ UNCHANGED <<charVars, storeVars, characters, templates, event_history, event_stats,
                   current_event, clock, agent, rec, issued>>

----------------------------------------------------------------------------
(* GameState.save_state / load_state *)

\* asdict(event) as json.dump writes it and json.load returns it
EventDict(e) ==
    [ template_id                |-> e.template_id,
      template_name              |-> e.template_name,
      contextualized_description |-> e.contextualized_description,
      outcome                    |-> e.outcome,
      character_changes          |-> e.character_changes,
      timestamp                  |-> e.timestamp,
      player_action              |-> e.player_action,
      event_number               |-> e.event_number ]

\* GameEvent(**event_dict)
EventFromDict(d) ==
    [ GameEvent(d.template_id, d.template_name, d.contextualized_description,
                d.timestamp, d.player_action, d.event_number)
      EXCEPT !.outcome           = d.outcome,
             !.character_changes = d.character_changes ]

\* state_data of save_state, as json.load returns it
StateData ==
    [ characters    |-> [n \in DOMAIN characters |-> CharDict(characters[n])],
      event_history |-> [i \in 1..Len(event_history) |-> EventDict(event_history[i])],
      story_log     |-> story_log,
      event_stats   |-> event_stats,
      current_event |-> IF current_event # None THEN EventDict(current_event)
                        ELSE None ]

\* the five collections of the session
Session ==
    [ characters    |-> characters,
      event_history |-> event_history,
      story_log     |-> story_log,
      event_stats   |-> event_stats,
      current_event |-> current_event ]

\* paths the save and load dialogs are given
SavePaths == { <<"save", ".json">> }

\* GameState.save_state(filepath), called by RPGGameGUI.save_game
save_state(filepath) ==
    /\ ~AgentRunning
    /\ files' = (filepath :> StateData) @@ files
    /\ saved' = (filepath :> Session) @@ saved
    /\ last' = Call("save_state", filepath, None)
    /\ UNCHANGED <<ch, template_files, turn_rec, characters, templates, event_history,
                   event_stats, current_event, story_log, clock, agent, rec, issued>>

\* a record of the file that Character(**char_dict) or GameEvent(**event_dict)
\* does not accept (a key that is no field, a required field missing)
MalformedRecord(d) == "malformed" \in DOMAIN d

\* the character names and event positions of state_data whose records are
\* malformed
BadCharacters(state_data) ==
    { n \in DOMAIN state_data.characters : MalformedRecord(state_data.characters[n]) }
BadEvents(state_data) ==
    { i \in DOMAIN state_data.event_history :
        MalformedRecord(state_data.event_history[i]) }

\* a state file every record of which load_state accepts
WellFormed(state_data) ==
    /\ BadCharacters(state_data) = {}
    /\ BadEvents(state_data) = {}

\* a load_state that keeps the characters of the session that are not in
\* the file
load_state_merge(filepath) ==
    /\ ~AgentRunning
    /\ filepath \in DOMAIN files
    /\ WellFormed(files[filepath])
    /\ LET state_data == files[filepath]
       IN  /\ characters' = [n \in DOMAIN state_data.characters |->
                                LoadFromDict(state_data.characters[n])] @@ characters
           /\ event_history' = [i \in 1..Len(state_data.event_history) |->
                                   EventFromDict(state_data.event_history[i])]
           /\ story_log' = state_data.story_log
           /\ event_stats' = state_data.event_stats
           /\ current_event' = IF state_data.current_event # None
                                THEN EventFromDict(state_data.current_event)
                                ELSE None
    /\ rec' = [rec EXCEPT !.fresh = FALSE]
    /\ last' = Call("load_state",
                    <<filepath, [events |-> Len(event_history), log |-> Len(story_log),
                                 characters |-> DOMAIN characters]>>, None)
    /\ UNCHANGED <<charVars, storeVars, templates, clock, agent, issued>>

\* GameState.load_state(filepath) of an existing file, called by
\* RPGGameGUI.load_game; the second component of arg records how much the
\* session held before the call
load_state(filepath) ==
    /\ ~AgentRunning
    /\ filepath \in DOMAIN files
    /\ WellFormed(files[filepath])
    /\ LET state_data == files[filepath]
       IN  /\ characters' = [n \in DOMAIN state_data.characters |->
                                LoadFromDict(state_data.characters[n])]
           /\ event_history' = [i \in 1..Len(state_data.event_history) |->
                                   EventFromDict(state_data.event_history[i])]
           /\ story_log' = state_data.story_log
           /\ event_stats' = state_data.event_stats
           /\ current_event' = IF state_data.current_event # None
                                THEN EventFromDict(state_data.current_event)
                                ELSE None
    /\ rec' = [rec EXCEPT !.fresh = FALSE]
    /\ last' = Call("load_state",
                    <<filepath, [events |-> Len(event_history), log |-> Len(story_log),
                                 characters |-> DOMAIN characters]>>, None)
    /\ UNCHANGED <<charVars, storeVars, templates, clock, agent, issued>>

\* the save file is edited outside the program: one character record, or one
\* event record, is left in a form the constructors reject
corrupt_save(filepath) ==
    /\ filepath \in DOMAIN files
    /\ WellFormed(files[filepath])
    /\ \/ \E n \in DOMAIN files[filepath].characters :
              files' = [files EXCEPT ![filepath].characters[n] = Malformed]
       \/ \E i \in DOMAIN files[filepath].event_history :
              files' = [files EXCEPT ![filepath].event_history[i] = Malformed]
    /\ last' = Call("edit", filepath, None)
    /\ UNCHANGED <<ch, template_files, saved, turn_rec, characters, templates,
                   event_history, event_stats, current_event, story_log, clock,
                   agent, rec, issued>>

\* load_state(filepath) of a file with a malformed record: the constructor
\* raises in the middle of the method and load_game reports it.  A malformed
\* character record is met after the characters in loaded (the records the
\* file lists before it) have been read; a malformed event record is met
\* after every character and the events before it have been read.
load_state_raises(filepath, loaded) ==
    /\ ~AgentRunning
    /\ filepath \in DOMAIN files
    /\ ~WellFormed(files[filepath])
    /\ LET state_data == files[filepath]
       IN  IF BadCharacters(state_data) # {}
           THEN /\ loaded \subseteq (DOMAIN state_data.characters)
                                        \ BadCharacters(state_data)
                /\ characters' = [n \in loaded |-> LoadFromDict(state_data.characters[n])]
                /\ UNCHANGED event_history
           ELSE LET first == CHOOSE i \in BadEvents(state_data) :
                                 \A j \in BadEvents(state_data) : i <= j
                IN  /\ loaded = DOMAIN state_data.characters
                    /\ characters' = [n \in loaded |->
                                         LoadFromDict(state_data.characters[n])]
                    /\ event_history' = [i \in 1..(first - 1) |->
                                            EventFromDict(state_data.event_history[i])]
    /\ rec' = [rec EXCEPT !.fresh = FALSE]
    /\ last' = Call("load_state", <<filepath, None>>, <<"Failed to load game">>)
    /\ UNCHANGED <<charVars, storeVars, templates, story_log, event_stats,
                   current_event, clock, agent, issued>>

\* load_state(filepath) of a missing file: open raises, load_game reports it
load_state_missing(filepath) ==
    /\ ~AgentRunning
    /\ filepath \notin DOMAIN files
    /\ last' = Call("load_state", <<filepath, None>>, <<"Failed to load game">>)
    /\ UNCHANGED <<charVars, storeVars, characters, templates, event_history,
                   event_stats, current_event, story_log, clock, agent, rec, issued>>

----------------------------------------------------------------------------
(* EventManager: save_template / load_all_templates *)

\* a re-save of treasure_find with other texts
TreasureHoard ==
    EventTemplate("treasure_find", "Treasure Hoard", "a vault", "medium", <<"reward">>)
\* a re-save of combat_encounter with other texts
Ambush ==
    EventTemplate("combat_encounter", "Ambush", "a trap", "medium", <<"combat">>)
SkillChallenge ==
    EventTemplate("skill_challenge", "Skill Challenge", "a challenge", "medium",
                  <<"skill", "challenge", "test">>)
\* a template whose id is the name of the file that does not parse
NotesTemplate ==
    EventTemplate("notes", "Notes", "a note", "easy", << >>)

\* the templates save_template is given
SaveTemplates == { TreasureFind, TreasureHoard, Ambush, SkillChallenge, NotesTemplate }

\* the ids get_template is asked for
LookupIds == { t.id : t \in SaveTemplates } \cup { UnknownTemplateId }

\* the files of the folder the try block gets through
ParsedFiles(disk) == { fn \in DOMAIN disk : Parses(disk[fn]) }

\* the catalogs load_all_templates can end with: every id carried by a file
\* that parses is a key, and its entry is the template of such a file (the one
\* glob yields last)
LoadedCatalogs(disk) ==
    LET loaded == { TemplateFromDict(disk[fn]) : fn \in ParsedFiles(disk) }
        ids    == { t.id : t \in loaded }
    IN  { catalog \in [ids -> loaded] : \A id \in ids : catalog[id].id = id }

\* a save_template that only updates the in-memory catalog
save_template_memory(template) ==
    /\ templates' = (template.id :> template) @@ templates
    /\ last' = Call("save_template", template, None)
    /\ UNCHANGED <<charVars, template_files, saved, turn_rec, characters, event_history,
                   event_stats, current_event, story_log, clock, agent, rec, issued>>

\* EventManager.save_template(template)
save_template(template) ==
    /\ template_files' = (TemplateFilename(template.id) :> TemplateDict(template))
                             @@ template_files
    /\ templates' = (template.id :> template) @@ templates
    /\ last' = Call("save_template", template, None)
    /\ UNCHANGED <<charVars, saved, turn_rec, characters, event_history, event_stats,
                   current_event, story_log, clock, agent, rec, issued>>

\* a load_all_templates without the try/except: the file that does not parse
\* is met first and ends the scan
load_all_templates_stop ==
    /\ \E catalog \in LoadedCatalogs(template_files) :
           templates' = IF ParsedFiles(template_files) # DOMAIN template_files
                        THEN << >> ELSE catalog
    /\ last' = Call("load_all_templates", templates, None)
    /\ UNCHANGED <<charVars, storeVars, characters, event_history, event_stats,
                   current_event, story_log, clock, agent, rec, issued>>

\* EventManager.load_all_templates(); arg records the catalog before the call
load_all_templates ==
    /\ \E catalog \in LoadedCatalogs(template_files) : templates' = catalog
    /\ last' = Call("load_all_templates", templates, None)
    /\ UNCHANGED <<charVars, storeVars, characters, event_history, event_stats,
                   current_event, story_log, clock, agent, rec, issued>>

\* a call of EventManager.get_template(template_id)
lookup_template(template_id) ==
    /\ last' = Call("get_template", template_id, get_template(templates, template_id))
    /\ UNCHANGED <<charVars, storeVars, characters, templates, event_history,
                   event_stats, current_event, story_log, clock, agent, rec, issued>>

\* EventTemplateCreator.save_template in another run of the program on the
\* same folder: its own EventManager writes the file, the catalog of this
\* session does not see it
creator_save_template(template) ==
    /\ template_files' = (TemplateFilename(template.id) :> TemplateDict(template))
                             @@ template_files
    /\ last' = Call("creator.save_template", template, None)
    /\ UNCHANGED <<charVars, saved, turn_rec, characters, templates, event_history,
                   event_stats,
                   current_event, story_log, clock, agent, rec, issued>>

\* the tags get_random_template is called with: none given (tags=None), an
\* empty list, or a list of tags
TagQueries ==
    { [given |-> FALSE, tags |-> << >>],
      [given |-> TRUE,  tags |-> << >>],
      [given |-> TRUE,  tags |-> <<"combat">>],
      [given |-> TRUE,  tags |-> <<"challenge">>],
      [given |-> TRUE,  tags |-> <<"magic", "reward">>],
      [given |-> TRUE,  tags |-> <<"magic">>] }

\* an available_templates that is never filtered
AvailableTemplates_all(catalog, query) ==
    { catalog[id] : id \in DOMAIN catalog }

\* available_templates of get_random_template: the catalog's values, filtered
\* when tags is truthy (given and not empty)
AvailableTemplates(catalog, query) ==
    LET available_templates == { catalog[id] : id \in DOMAIN catalog }
    IN  IF query.given /\ query.tags # << >>
        THEN { t \in available_templates :
                 \E i \in DOMAIN query.tags : InSeq(query.tags[i], t.tags) }
        ELSE available_templates

\* what 'random.choice(available_templates) if available_templates else None'
\* can evaluate to
RandomChoice(available_templates) ==
    IF available_templates = {} THEN {None} ELSE available_templates

\* EventManager.get_random_template(tags) returning result
get_random_template(query, result) ==
    /\ result \in RandomChoice(AvailableTemplates(templates, query))
    /\ last' = Call("get_random_template", query, result)
    /\ UNCHANGED <<charVars, storeVars, characters, templates, event_history,
                   event_stats, current_event, story_log, clock, agent, rec, issued>>

----------------------------------------------------------------------------
(* src/revised_trope_generator.py: generate_noir_tropes *)

\* the most tropes asked for
MaxTropes == 2

\* three entries of tropes_data, each with the first two of its subversions;
\* the texts are shortened
tropes_data ==
    (1 :> [ title       |-> "The False MacGuffin Reveal",
            convention  |-> "revealed as worthless",
            subversions |-> <<"The Personal MacGuffin", "The MacGuffin's True Cost">> ])
    @@
    (2 :> [ title       |-> "The Femme Fatale's True Nature",
            convention  |-> "convention 2",
            subversions |-> <<"subversion 2.1", "subversion 2.2">> ])
    @@
    (40 :> [ title       |-> "trope 40",
             convention  |-> "convention 40",
             subversions |-> <<"subversion 40.1", "The Recursive Frame">> ])

\* subversion_percentage, in hundredths: 0.0, the default 0.3, 1.0
Percentages == { 0, 30, 100 }

\* num_tropes
TropeCounts == (0 - 1)..MaxTropes

\* the random draws of one round of the loop: random.choice(trope_numbers),
\* random.random() in hundredths (just below and at the default percentage),
\* and the index random.choice(trope_data['subversions']) picks
Draws ==
    [ trope_num : DOMAIN tropes_data, roll : {29, 30}, pick : 1..2 ]

\* a loop body that takes the subversion from the first trope of the table
TropeTuple_first(draw, subversion_percentage) ==
    LET trope_data == tropes_data[draw.trope_num]
    IN  IF draw.roll < subversion_percentage
        THEN <<trope_data.title, "Subversion", tropes_data[1].subversions[draw.pick]>>
        ELSE <<trope_data.title, "Convention", trope_data.convention>>

\* the tuple one round of the loop appends
TropeTuple(draw, subversion_percentage) ==
    LET trope_data == tropes_data[draw.trope_num]
    IN  IF draw.roll < subversion_percentage
        THEN <<trope_data.title, "Subversion", trope_data.subversions[draw.pick]>>
        ELSE <<trope_data.title, "Convention", trope_data.convention>>

\* the rounds range(num_tropes) runs
Rounds(num_tropes) == 1..Max(num_tropes, 0)

\* generate_noir_tropes(subversion_percentage, num_tropes); draws[i] are the
\* random draws of round i
generate_noir_tropes(subversion_percentage, num_tropes, draws) ==
    /\ last' = Call("generate_noir_tropes", <<subversion_percentage, num_tropes>>,
                    [i \in Rounds(num_tropes) |->
                        TropeTuple(draws[i], subversion_percentage)])
    /\ UNCHANGED <<charVars, sessionVars>>

\* SpecTropes: calls of generate_noir_tropes
NextTropes ==
    \E subversion_percentage \in Percentages, num_tropes \in TropeCounts :
        \E draws \in [Rounds(num_tropes) -> Draws] :
            generate_noir_tropes(subversion_percentage, num_tropes, draws)

Readings(from) == from..Min(from + 1, MaxClock)

\* the session's bookkeeping: characters added, events, statistics, the
\* current event and the story log
Next ==
    \/ \E name \in Names, symbol \in SessionSymbols, base \in BaseCharacters :
           gui_add_character(name, symbol, base)
    \/ \E template_id \in TemplateIds, player_action \in PlayerInputs :
           \E t1 \in Readings(clock) : \E t2 \in Readings(t1) :
               execute_event_template(template_id, player_action, t1, t2)
    \/ \E player_input \in PlayerInputs : process_player_action(player_input)
    \/ trigger_random_event
    \/ force_selected_event
    \/ agent_run_returns
    \/ agent_run_raises
    \/ undo_last_event
    \/ clear_current_event
    \/ clear_story

\* SpecTurns: player turns and random events that record events, and undo;
\* every template asked for is in the catalog and the clock stands still
NextTurns ==
    \/ \E player_input \in PlayerInputs : process_player_action(player_input)
    \/ trigger_random_event
    \/ \E template_id \in DOMAIN templates, player_action \in PlayerInputs :
           execute_event_template(template_id, player_action, clock, clock)
    \/ agent_run_returns_turn
    \/ undo_last_event

\* SpecTools: every character tool, around one recorded event that can be
\* undone; the clock stands still
NextTools ==
    \/ \E name \in Names, symbol \in SessionSymbols, base \in BaseCharacters :
           gui_add_character(name, symbol, base)
    \/ \E name \in Names, change \in HpChanges : modify_character_hp(name, change)
    \/ \E name \in Names, change \in CashChanges : modify_character_cash(name, change)
    \/ \E name \in Names, item \in Items : add_item_to_inventory(name, item)
    \/ \E name \in Names, item \in Items : remove_item_from_inventory(name, item)
    \/ \E name \in Names, condition \in Conditions : set_character_condition(name, condition)
    \/ \E name \in Names : clear_character_condition(name)
    \/ \E name \in Names, skill \in Skills : learn_character_skill(name, skill)
    \/ /\ Len(event_history) < MaxToolsHistory
       /\ \E template_id \in DOMAIN templates, player_action \in PlayerInputs :
              execute_event_template(template_id, player_action, clock, clock)
    \/ trigger_random_event
    \/ agent_run_returns
    \/ undo_last_event

\* SpecSave: a session that is played, saved and loaded back; the clock
\* stands still
NextSave ==
    \/ \E name \in SaveNames, symbol \in SessionSymbols, base \in BaseCharacters :
           gui_add_character(name, symbol, base)
    \/ \E name \in SaveNames, change \in SaveHpChanges : modify_character_hp(name, change)
    \/ /\ Len(event_history) < MaxToolsHistory
       /\ \E template_id \in DOMAIN templates, player_action \in PlayerInputs :
              execute_event_template(template_id, player_action, clock, clock)
    \/ \E player_input \in PlayerInputs : process_player_action(player_input)
    \/ agent_run_returns
    \/ \E filepath \in SavePaths : save_state(filepath)
    \/ \E filepath \in SavePaths : load_state(filepath)
    \/ \E filepath \in SavePaths : load_state_missing(filepath)

\* SpecLoad: SpecSave with a save file that can be edited outside the program
NextLoad ==
    \/ NextSave
    \/ \E filepath \in SavePaths : corrupt_save(filepath)
    \/ \E filepath \in SavePaths : \E loaded \in SUBSET SaveNames :
           load_state_raises(filepath, loaded)

\* SpecCatalog: one EventManager and its folder
NextCatalog ==
    \/ \E template \in SaveTemplates : save_template(template)
    \/ load_all_templates
    \/ \E template_id \in LookupIds : lookup_template(template_id)
    \/ \E query \in TagQueries :
           \E result \in RandomChoice(AvailableTemplates(templates, query)) :
               get_random_template(query, result)

\* SpecFolder: an EventManager whose folder is also written by the template
\* creator
NextFolder ==
    \/ NextCatalog
    \/ \E template \in SaveTemplates : creator_save_template(template)

Spec == Init /\ [][Next]_vars

SpecChar == Init /\ [][NextChar]_vars

SpecStore == Init /\ [][NextStore]_vars

SpecTurns == Init /\ [][NextTurns]_vars

SpecTools == Init /\ [][NextTools]_vars

SpecSheet == Init /\ [][NextSheet]_vars

SpecSave == Init /\ [][NextSave]_vars

SpecCatalog == Init /\ [][NextCatalog]_vars

SpecTropes == Init /\ [][NextTropes]_vars

SpecNames == Init /\ [][NextNames]_vars

SpecLoad == Init /\ [][NextLoad]_vars

SpecFolder == Init /\ [][NextFolder]_vars

----------------------------------------------------------------------------
(* Claims *)

Times == 0..MaxClock

\* C1 (as claimed): 0 <= current_hp <= max_hp in every state of a Character,
\* whatever integers set_max_hp, set_current_hp, take_damage and heal are given.
\* Refuted under SpecChar: set_max_hp(-1) leaves current_hp = -1,
\* take_damage(-1) at full hp leaves current_hp = max_hp + 1.
C1_HpWithinBounds == 0 <= ch.current_hp /\ ch.current_hp <= ch.max_hp

\* C2 (as claimed): current_hp = 0 implies is_living = FALSE in every state of
\* a Character.  Refuted under SpecChar: set_max_hp(0) and Character(max_hp=0)
\* leave a living character at 0 hp, set_is_living(True) revives one.
C2_ZeroHpNotLiving == ch.current_hp = 0 => ~ch.is_living

\* C3 (as claimed): execute_event_template with a known id followed by
\* undo_last_event leaves event_history and every event_stats entry (presence,
\* count, last_triggered) as they were before the execute_event_template.
\* Refuted: the last_triggered of an entry that existed before is not restored.
C3_UndoRestoresStats ==
    (last.op = "undo_last_event" /\ last.arg)
        => /\ event_history = rec.event_history
           /\ event_stats = rec.event_stats

\* C3 (amended): execute_event_template with a known id followed by
\* undo_last_event restores event_history and, for every template id, the
\* presence, name and count of its event_stats entry; the entries of the other
\* templates are restored completely.
C3_UndoRestoresCounts ==
    (last.op = "undo_last_event" /\ last.arg)
        => /\ event_history = rec.event_history
           /\ DOMAIN event_stats = DOMAIN rec.event_stats
           /\ \A k \in DOMAIN event_stats :
                  /\ event_stats[k].count = rec.event_stats[k].count
                  /\ event_stats[k].name = rec.event_stats[k].name
                  /\ k # rec.template_id => event_stats[k] = rec.event_stats[k]

\* an undo right after a recorded event whose template had been triggered
\* before: the entry is back at its count, with the later last_triggered
C3_Witness ==
    /\ last.op = "undo_last_event"
    /\ last.arg
    /\ rec.template_id \in DOMAIN event_stats
    /\ event_stats[rec.template_id].last_triggered
           # rec.event_stats[rec.template_id].last_triggered

\* C4: undo_last_event on a non-empty history removes exactly the last event,
\* decrements its template's count by one, deletes that entry when the count
\* reaches zero, clears current_event when it was the popped event, and leaves
\* the earlier events and the other templates' entries unchanged.
C4_UndoPopsLast ==
    [][ (undo_last_event /\ Len(event_history) > 0) =>
          LET n   == Len(event_history)
              ev  == event_history[n]
              tid == ev.template_id
          IN  /\ event_history' = SubSeq(event_history, 1, n - 1)
              /\ tid \in DOMAIN event_stats
              /\ IF event_stats[tid].count = 1
                 THEN tid \notin DOMAIN event_stats'
                 ELSE /\ tid \in DOMAIN event_stats'
                      /\ event_stats'[tid].count = event_stats[tid].count - 1
              /\ DOMAIN event_stats' \subseteq DOMAIN event_stats
              /\ \A k \in (DOMAIN event_stats) \ {tid} :
                     k \in DOMAIN event_stats' /\ event_stats'[k] = event_stats[k]
              /\ current_event = ev => current_event' = None ]_vars

\* an undo popped the current event and left an older event and its entry
C4_Witness ==
    /\ last.op = "undo_last_event"
    /\ last.ret[1] = "Undid event"
    /\ Len(event_history) >= 1
    /\ event_stats # << >>
    /\ current_event = None

\* C5: execute_event_template with a known id gives the new event the number
\* len(event_history) + 1, an empty outcome and an empty change map, appends it
\* as the last element, makes it current, and adds one to that template's count
\* (creating the entry at 1); no other template's entry changes.
C5_ExecuteRecords ==
    [][ \A tid \in DOMAIN templates, pa \in PlayerInputs, t1 \in Times, t2 \in Times :
          execute_event_template(tid, pa, t1, t2) =>
            LET n  == Len(event_history)
                ev == event_history'[n + 1]
            IN  /\ Len(event_history') = n + 1
                /\ SubSeq(event_history', 1, n) = event_history
                /\ ev.event_number = n + 1
                /\ ev.template_id = tid
                /\ ev.player_action = pa
                /\ ev.outcome = ""
                /\ ev.character_changes = << >>
                /\ current_event' = ev
                /\ DOMAIN event_stats' = DOMAIN event_stats \cup {tid}
                /\ event_stats'[tid].count =
                       IF tid \in DOMAIN event_stats
                       THEN event_stats[tid].count + 1 ELSE 1
                /\ \A k \in (DOMAIN event_stats) \ {tid} :
                       event_stats'[k] = event_stats[k] ]_vars

\* a second event was recorded: one entry was created, or one was incremented
C5_Witness ==
    /\ last.op = "execute_event_template"
    /\ last.ret[1] = "EVENT"
    /\ Len(event_history) = 2
    /\ current_event = event_history[2]
    /\ \E k \in DOMAIN event_stats : event_stats[k].count = 2

\* C6 (as claimed): every newly recorded event gets a number strictly greater
\* than the number of every event recorded earlier in the session.  Refuted:
\* after an undo the number of the undone event is given again.
C6_NumbersNeverReused ==
    (last.op = "execute_event_template" /\ last.ret[1] = "EVENT")
        => last.ret[2] > last.arg[2]

\* C6 (amended): every newly recorded event gets a number strictly greater
\* than the number of every event that is in event_history when it is
\* recorded; event_history is numbered 1, 2, ... in order.
C6_NumbersIncreaseInHistory ==
    /\ \A i \in 1..Len(event_history) : event_history[i].event_number = i
    /\ (last.op = "execute_event_template" /\ last.ret[1] = "EVENT")
           => /\ last.ret[2] = event_history[Len(event_history)].event_number
              /\ \A i \in 1..(Len(event_history) - 1) :
                     event_history[i].event_number < last.ret[2]

\* an event recorded after an undo, on top of an older event, with a number
\* that had been given before
C6_Witness ==
    /\ last.op = "execute_event_template"
    /\ last.ret[1] = "EVENT"
    /\ last.ret[2] <= last.arg[2]
    /\ Len(event_history) >= 2

\* C7: execute_event_template with an id that is not in the catalog reports
\* "not found" and leaves event_history, event_stats and current_event
\* unchanged.
C7_UnknownTemplate ==
    [][ \A tid \in TemplateIds, pa \in PlayerInputs, t1 \in Times, t2 \in Times :
          (tid \notin DOMAIN templates /\ execute_event_template(tid, pa, t1, t2)) =>
              /\ last'.ret = <<"not found">>
              /\ UNCHANGED <<event_history, event_stats, current_event>> ]_vars

\* an unknown id was refused in a session that has an event, statistics and a
\* current event to lose
C7_Witness ==
    /\ last.op = "execute_event_template"
    /\ last.ret = <<"not found">>
    /\ Len(event_history) >= 1
    /\ event_stats # << >>
    /\ current_event # None

\* C8: undo_last_event on an empty event_history reports "No events to undo"
\* and leaves event_history, event_stats, current_event, story_log and
\* characters unchanged.
C8_UndoEmptyHistory ==
    [][ (undo_last_event /\ Len(event_history) = 0) =>
          /\ last'.ret = <<"No events to undo">>
          /\ UNCHANGED <<event_history, event_stats, current_event, story_log,
                         characters>> ]_vars

\* an undo was refused in a session with story-log entries and a character
C8_Witness ==
    /\ last.op = "undo_last_event"
    /\ last.ret = <<"No events to undo">>
    /\ Len(story_log) >= 2
    /\ characters # << >>

\* C9: undo_last_event never changes characters: the mapping and every field
\* of every character are the same after it as before it.
C9_UndoKeepsCharacters ==
    [][ undo_last_event => characters' = characters ]_vars

\* an event was undone after tool calls had changed hp, cash, inventory,
\* skills and condition of a character
C9_Witness ==
    /\ last.op = "undo_last_event"
    /\ last.ret[1] = "Undid event"
    /\ \E n \in DOMAIN characters :
           /\ characters[n].current_hp < characters[n].max_hp
           /\ characters[n].cash > 0
           /\ characters[n].inventory # << >>
           /\ characters[n].skills # << >>
           /\ characters[n].condition # ""

\* C10: for every d >= 0, take_damage(d) leaves current_hp = max(0,
\* current_hp_before - d); the result 0 leaves is_living false, any other
\* result leaves is_living as it was, so a living character stops living if
\* and only if the result is 0.
C10_TakeDamage ==
    [][ \A d \in HpArgs :
          (d >= 0 /\ CTakeDamage(d)) =>
              /\ ch'.current_hp = Max(0, ch.current_hp - d)
              /\ ch'.current_hp = 0 => ~ch'.is_living
              /\ ch'.current_hp # 0 => ch'.is_living = ch.is_living
              /\ ch.is_living => (~ch'.is_living <=> ch'.current_hp = 0) ]_vars

\* damage took a character to 0 hp and it is no longer living
C10_Witness ==
    /\ last.op = "take_damage"
    /\ last.arg > 0
    /\ last.ret
    /\ ch.current_hp = 0
    /\ ~ch.is_living

\* C11 (as claimed): take_damage returns TRUE exactly when the character was
\* living before the call and is not living after it, and FALSE otherwise.
\* Refuted under SpecChar: on a character that is already dead at 0 hp,
\* take_damage returns TRUE again.
C11_ReturnsCausedDeath ==
    [][ \A d \in HpArgs :
          CTakeDamage(d) =>
              (last'.ret <=> (ch.is_living /\ ~ch'.is_living)) ]_vars

\* C12: for every h >= 0 and every living character, heal(h) leaves
\* current_hp = min(max_hp, current_hp_before + h) and returns
\* current_hp_after - current_hp_before.
C12_HealLiving ==
    [][ \A h \in HpArgs :
          (h >= 0 /\ ch.is_living /\ CHeal(h)) =>
              /\ ch'.current_hp = Min(ch.max_hp, ch.current_hp + h)
              /\ last'.ret = ch'.current_hp - ch.current_hp ]_vars

\* a living, wounded character was healed by less than the amount asked for,
\* because of the cap at max_hp
C12_Witness ==
    /\ last.op = "heal"
    /\ last.arg > 0
    /\ ch.is_living
    /\ last.ret > 0
    /\ last.ret < last.arg
    /\ ch.current_hp = ch.max_hp

\* C13: heal(h) on a character whose is_living is FALSE returns 0 and leaves
\* every field of the character unchanged, for every h and every current_hp.
C13_HealNotLiving ==
    [][ \A h \in HpArgs :
          (~ch.is_living /\ CHeal(h)) => (ch' = ch /\ last'.ret = 0) ]_vars

\* heal was called with a positive amount on a dead character below max_hp
C13_Witness ==
    /\ last.op = "heal"
    /\ last.arg > 0
    /\ last.ret = 0
    /\ ~ch.is_living
    /\ ch.current_hp < ch.max_hp

\* C14 (as claimed): cash >= 0 in every state of a Character, after
\* construction with caller overrides, set_cash and modify_character_cash with
\* any integers.  Refuted under SpecSheet: create_npc(name, cash=-1) hands the
\* negative balance to the constructor, which stores it as it is.
C14_CashNonNegative == ch.cash >= 0

\* C15 (as claimed): the skill list never holds the same name twice, after any
\* sequence of learn_skill and set_skills.  Refuted under SpecSheet:
\* set_skills stores the list it is given, duplicates included.
C15_SkillsNoDuplicates == NoDuplicates(ch.skills)

C17_RoundTrip ==
    [][ /\ CExport => files'[DefaultFilename(ch.name)] = CharDict(ch)
        /\ \A fn \in DOMAIN files :
               CLoad(fn) => /\ DOMAIN ch' = DOMAIN files[fn]
                            /\ \A f \in DOMAIN ch' : ch'[f] = files[fn][f]
        /\ (last.op = "export_character" /\ CLoad(last.ret)) => ch' = ch ]_vars

\* a dead character at 0 hp, with max_hp above 0, came back from its file
C17_Witness ==
    /\ last.op = "load_character"
    /\ last.arg \in DOMAIN files
    /\ CharDict(ch) = files[last.arg]
    /\ ch.current_hp = 0
    /\ ch.max_hp > 0
    /\ ~ch.is_living

\* C18: save_state to a file followed by load_state of that file, whatever
\* the session did in between, leaves characters (every field), event_history,
\* story_log, event_stats and current_event equal to the saved ones; nothing of
\* the session before the load survives.  save_state itself changes none of
\* them.
C18_SaveLoadRoundTrip ==
    [][ \A fp \in SavePaths :
          /\ save_state(fp) => (Session' = Session /\ saved'[fp] = Session)
          /\ load_state(fp) =>
                /\ fp \in DOMAIN saved
                /\ Session' = saved[fp]
                /\ DOMAIN characters' = DOMAIN saved[fp].characters
                /\ Len(event_history') = Len(saved[fp].event_history)
                /\ Len(story_log') = Len(saved[fp].story_log)
                /\ DOMAIN event_stats' = DOMAIN saved[fp].event_stats ]_vars

\* a load brought back a wounded character, an event that is current, its
\* statistics and a story log, and dropped a character and log entries that
\* the session had got after the save
C18_Witness ==
    /\ last.op = "load_state"
    /\ last.arg[1] \in DOMAIN saved
    /\ Session = saved[last.arg[1]]
    /\ \E n \in DOMAIN characters :
           /\ characters[n].current_hp > 0
           /\ characters[n].current_hp < characters[n].max_hp
    /\ DOMAIN characters # last.arg[2].characters
    /\ DOMAIN characters \subseteq last.arg[2].characters
    /\ Len(event_history) = 1
    /\ current_event = event_history[1]
    /\ event_stats # << >>
    /\ Len(story_log) >= 2
    /\ Len(story_log) < last.arg[2].log

\* C19: load_all_templates never fails because of a file that does not parse:
\* it can always be called and returns normally, leaves the folder as it is,
\* and the catalog it leaves holds exactly the templates of the files that
\* parse, one entry per such file (one bad and two good files give 2 entries),
\* whatever the catalog held before.
C19_LoadAllSkipsBadFiles ==
    /\ [](ENABLED load_all_templates)
    /\ [][ load_all_templates =>
             LET good == ParsedFiles(template_files)
             IN  /\ DOMAIN templates' = { template_files[fn].id : fn \in good }
                 /\ \A fn \in good :
                        templates'[template_files[fn].id] = TemplateFromDict(template_files[fn])
                 /\ Cardinality(DOMAIN templates') = Cardinality(good)
                 /\ template_files' = template_files
                 /\ last'.ret = None ]_vars

\* load_all_templates ran on a folder of two good files and one bad file,
\* left 2 entries, and replaced an entry the catalog held before
C19_Witness ==
    /\ last.op = "load_all_templates"
    /\ Cardinality(DOMAIN template_files) = 3
    /\ Cardinality(ParsedFiles(template_files)) = 2
    /\ Cardinality(DOMAIN templates) = 2
    /\ DOMAIN last.arg = DOMAIN templates
    /\ last.arg # templates

\* C20: save_template overwrites the file and the in-memory entry of the
\* template's id and leaves every other file and entry as it is; after any
\* sequence of save_template and load_all_templates the catalog is the one
\* read from the folder, one entry per id, and get_template(id) returns the
\* template last saved under id (the one its file holds), None when there is
\* none.
C20_SaveKeepsCatalogAndFolderEqual ==
    /\ [](LoadedCatalogs(template_files) = {templates})
    /\ [][ \A t \in SaveTemplates :
             save_template(t) =>
               LET fn == TemplateFilename(t.id)
               IN  /\ DOMAIN template_files' = DOMAIN template_files \cup {fn}
                   /\ template_files'[fn] = TemplateDict(t)
                   /\ \A g \in (DOMAIN template_files) \ {fn} :
                          template_files'[g] = template_files[g]
                   /\ DOMAIN templates' = DOMAIN templates \cup {t.id}
                   /\ templates'[t.id] = t
                   /\ \A k \in (DOMAIN templates) \ {t.id} :
                          templates'[k] = templates[k]
                   /\ get_template(templates', t.id) = t ]_vars
    /\ [][ \A id \in LookupIds :
             lookup_template(id) =>
               LET fn == TemplateFilename(id)
               IN  last'.ret = IF fn \in ParsedFiles(template_files)
                               THEN TemplateFromDict(template_files[fn])
                               ELSE None ]_vars

\* get_template returned the template saved over the first treasure_find; the
\* file that did not parse has been overwritten by a save; combat_encounter is
\* as it was
C20_Witness ==
    /\ last.op = "get_template"
    /\ last.arg = "treasure_find"
    /\ last.ret = TreasureHoard
    /\ "notes" \in DOMAIN templates
    /\ templates["combat_encounter"] = CombatEncounter
    /\ template_files[TemplateFilename("combat_encounter")] = TemplateDict(CombatEncounter)

\* the catalog templates a tag query asks for: every template when no tag is
\* given, else the templates whose tag list holds one of the requested tags
C21_Matching(query) ==
    { t \in { templates[id] : id \in DOMAIN templates } :
        \/ ~query.given
        \/ query.tags = << >>
        \/ \E i \in DOMAIN query.tags, j \in DOMAIN t.tags : query.tags[i] = t.tags[j] }

\* C21: get_random_template(tags) returns only a template whose tag list
\* intersects the requested tags (any catalog template when no tags are
\* given); every such template is a possible result; the result is None
\* exactly when the filtered set is empty; when exactly one template matches
\* it is the one returned.
C21_RandomTemplate ==
    /\ [](last.op = "get_random_template" =>
            /\ (last.ret = None) <=> (C21_Matching(last.arg) = {})
            /\ last.ret # None => last.ret \in C21_Matching(last.arg)
            /\ Cardinality(C21_Matching(last.arg)) = 1 =>
                   C21_Matching(last.arg) = {last.ret})
    /\ [](\A query \in TagQueries :
            /\ \A t \in C21_Matching(query) : ENABLED get_random_template(query, t)
            /\ C21_Matching(query) = {} => ENABLED get_random_template(query, None)
            /\ \E result \in C21_Matching(query) \cup {None} :
                   ENABLED get_random_template(query, result))

\* get_random_template(["combat"]) on a catalog of three templates, one of
\* them tagged "combat", returned that template
C21_Witness ==
    /\ last.op = "get_random_template"
    /\ last.arg = [given |-> TRUE, tags |-> <<"combat">>]
    /\ Cardinality(DOMAIN templates) = 3
    /\ C21_Matching(last.arg) = {last.ret}
    /\ last.ret.id = "combat_encounter"

\* C22: when agent.run raises inside process_player_action, the call returns
\* the "Error processing action: ..." message instead of raising, and the
\* story log is, from the start of the turn to its end, what it was: nothing
\* is appended for that turn.
C22_FailureSurfaced ==
    [][ agent.ctx = "process_player_action" =>
          /\ agent'.ctx \in {"process_player_action", "idle"}
          /\ agent'.ctx = "process_player_action" => story_log' = story_log
          /\ (agent'.ctx = "idle" /\ last'.ret # <<"response">>) =>
                 /\ last'.op = "process_player_action"
                 /\ last'.arg = agent.input
                 /\ last'.ret = <<"Error processing action">>
                 /\ story_log' = story_log ]_vars

\* a turn that recorded an event and then failed, after a turn that succeeded:
\* the log holds the pair of the first turn only
C22_Witness ==
    /\ last.op = "process_player_action"
    /\ last.ret = <<"Error processing action">>
    /\ agent = Idle
    /\ Len(event_history) > 0
    /\ rec.fresh
    /\ Len(story_log) = 2

\* C23: undo_last_event removes the trailing two story-log entries when at
\* least two exist (none otherwise), and the two entries it removes are the
\* player/GM pair of the turn in which the undone event was recorded: that
\* turn was a process_player_action turn, and the log is the log that turn
\* started from followed by its pair; entries of every other turn stay in the
\* log.
C23_UndoRemovesTurnPair ==
    [][ ( /\ last'.op = "undo_last_event"
          /\ Len(event_history) >= 1
          /\ turn_rec.event_number = event_history[Len(event_history)].event_number )
        => /\ Len(story_log) < 2 => story_log' = story_log
           /\ Len(story_log) >= 2 =>
                  /\ story_log' = SubSeq(story_log, 1, Len(story_log) - 2)
                  /\ turn_rec.turn = "process_player_action"
                  /\ \E player_input \in PlayerInputs :
                         story_log = turn_rec.story_log \o
                             << <<"Player", player_input>>, <<"GM", "response">> >>
                  /\ story_log' = turn_rec.story_log ]_vars

\* C24: a character generated without a caller-supplied archetype, through
\* generate_character_with_background or through create_player_character /
\* create_npc called without an archetype, has the archetype the generator
\* suggests; an archetype the caller supplies is the character's archetype.
C24_DefaultArchetype ==
    LET suggested == { base.archetype : base \in BaseCharacters }
    IN  /\ last.op = "generate_character_with_background" =>
               IF "archetype" \in DOMAIN last.arg
               THEN ch.archetype = last.arg.archetype
               ELSE ch.archetype \in suggested
        /\ last.op = "create_player_character" =>
               IF last.arg = ""
               THEN ch.archetype \in suggested
               ELSE ch.archetype = last.arg
        /\ last.op = "create_npc" => ch.archetype \in suggested

\* C25: generate_noir_tropes(p, n) returns exactly n tuples for every n >= 0,
\* and every tuple (title, type, description) is consistent with the trope
\* table: title is the title of one trope, and either type is "Convention"
\* and description is that trope's convention, or type is "Subversion" and
\* description is one of that same trope's subversions.
C25_TropesConsistent ==
    last.op = "generate_noir_tropes" =>
        LET n      == last.arg[2]
            result == last.ret
        IN  /\ n >= 0 => Len(result) = n
            /\ \A i \in DOMAIN result :
                   \E k \in DOMAIN tropes_data :
                       /\ result[i][1] = tropes_data[k].title
                       /\ \/ /\ result[i][2] = "Convention"
                             /\ result[i][3] = tropes_data[k].convention
                          \/ /\ result[i][2] = "Subversion"
                             /\ \E j \in DOMAIN tropes_data[k].subversions :
                                    result[i][3] = tropes_data[k].subversions[j]

\* a call with the default percentage that returned the convention of one
\* trope and then a subversion of another
C25_Witness ==
    /\ last.op = "generate_noir_tropes"
    /\ last.arg[1] = 30
    /\ last.arg[2] >= 2
    /\ last.ret[1] = <<"The Femme Fatale's True Nature", "Convention", "convention 2">>
    /\ last.ret[2] = <<"trope 40", "Subversion", "The Recursive Frame">>

\* C26: in a session that starts fresh and goes through
\* execute_event_template and undo_last_event, for every template id the
\* statistics count is the number of events of event_history that carry the
\* id, and event_stats has an entry for the id exactly when that number is at
\* least 1.
C26_StatsCountEvents ==
    \A id \in TemplateIds \cup DOMAIN event_stats :
        LET n == Cardinality({ i \in DOMAIN event_history :
                                 event_history[i].template_id = id })
        IN  /\ id \in DOMAIN event_stats <=> n >= 1
            /\ id \in DOMAIN event_stats => event_stats[id].count = n

\* the second of two events of one template has been undone: the count went
\* from 2 to 1 and the entry stays
C26_Witness ==
    /\ last.op = "undo_last_event"
    /\ last.ret[1] = "Undid event"
    /\ Len(event_history) = 1
    /\ event_history[1].template_id = rec.template_id
    /\ rec.template_id \in DOMAIN event_stats
    /\ event_stats[rec.template_id].count = 1

\* C27: in a session that starts fresh and goes through
\* execute_event_template, undo_last_event and clear_current_event,
\* current_event is None or is the last element of event_history: it never
\* refers to an event that is no longer in the history or to an event other
\* than the most recent one.
C27_CurrentIsLastOrNone ==
    \/ current_event = None
    \/ /\ Len(event_history) >= 1
       /\ current_event = event_history[Len(event_history)]

\* an event recorded after an undo emptied the history is the current event
C27_Witness ==
    /\ last.op = "execute_event_template"
    /\ last.ret[1] = "EVENT"
    /\ last.ret[2] <= last.arg[2]
    /\ Len(event_history) = 1
    /\ current_event = event_history[1]

\* C28: death is absorbing under the tool operations: once a session
\* character has is_living = FALSE, no tool call (modify_character_hp with any
\* change, modify_character_cash, add or remove item, set or clear condition,
\* learn skill, execute_event_template) and no undo_last_event makes
\* is_living true again or increases its current_hp.
C28_DeathAbsorbing ==
    [][ \A n \in DOMAIN characters :
          (~characters[n].is_living /\ last'.op # "add_character") =>
              /\ n \in DOMAIN characters'
              /\ ~characters'[n].is_living
              /\ characters'[n].current_hp <= characters[n].current_hp ]_vars

\* modify_character_hp with a positive change on a dead character healed
\* nothing
C28_Witness ==
    /\ last.op = "modify_character_hp"
    /\ last.arg[2] > 0
    /\ last.ret = <<"healed", 0>>
    /\ last.arg[1] \in DOMAIN characters
    /\ ~characters[last.arg[1]].is_living
    /\ characters[last.arg[1]].current_hp = 0

\* C29 as claimed: two characters with different names get different default
\* export filenames, so exporting one character with the default filename
\* never writes to the file that holds a character of another name, whose
\* fields can still be loaded back.
C29_DifferentNamesDifferentFiles ==
    [][ last'.op = "export_character" =>
          \A fn \in DOMAIN files :
              files[fn].name # ch.name =>
                  /\ fn # last'.ret
                  /\ files'[fn] = files[fn]
                  /\ LoadFromDict(files'[fn]) = LoadFromDict(files[fn]) ]_vars

\* two letters that lowercasing and the replacement of spaces make equal
C29_SameLetter(x, y) ==
    \/ x = y
    \/ {x, y} = {"A", "a"}
    \/ {x, y} = {"B", "b"}
    \/ {x, y} = {" ", "_"}

\* two names that differ at most in case and in spaces against underscores
C29_SameNormalForm(n1, n2) ==
    /\ Len(n1) = Len(n2)
    /\ \A i \in 1..Len(n1) : C29_SameLetter(n1[i], n2[i])

\* C29 (amended): two names get the same default filename exactly when they
\* differ at most in case and in spaces against underscores; an export with
\* the default filename overwrites the file of such a name and leaves every
\* other character's file, and what load_character reads from it, as it was.
C29_ExportOverwritesOnlySameNormalForm ==
    /\ [](\A n1 \in ExportNames, n2 \in ExportNames :
            DefaultFilename(n1) = DefaultFilename(n2) <=> C29_SameNormalForm(n1, n2))
    /\ [][ last'.op = "export_character" =>
             /\ files'[last'.ret] = CharDict(ch)
             /\ \A fn \in DOMAIN files :
                    IF C29_SameNormalForm(files[fn].name, ch.name)
                    THEN fn = last'.ret
                    ELSE /\ fn # last'.ret
                         /\ files'[fn] = files[fn]
                         /\ LoadFromDict(files'[fn]) = LoadFromDict(files[fn]) ]_vars

\* "a_b" has just been exported over the file of "a b"; the file of "Ab",
\* exported with other hit points, is as it was
C29_Witness ==
    /\ last.op = "export_character"
    /\ ch.name = <<"a", "_", "b">>
    /\ last.ret = DefaultFilename(<<"a", " ", "b">>)
    /\ files[last.ret] = CharDict(ch)
    /\ DefaultFilename(TestName) \in DOMAIN files
    /\ files[DefaultFilename(TestName)].name = TestName
    /\ files[DefaultFilename(TestName)].current_hp # ch.current_hp

\* C30: load_state is all-or-nothing: when it fails (the file is missing, or
\* a character or event record in it is malformed), characters,
\* event_history, story_log, event_stats and current_event are left exactly
\* as they were before the call.
C30_LoadAllOrNothing ==
    [][ (\E filepath \in SavePaths :
            \/ load_state_missing(filepath)
            \/ \E loaded \in SUBSET SaveNames : load_state_raises(filepath, loaded))
        => Session' = Session ]_vars

====
